---- MODULE Spec2Model ----
(***************************************************************************)
(* A model of the algorithmic core of pool-analyzer:                       *)
(*   - TickUtils.retrieveTicksInBatches   (src/src/utils/priceUtils.ts)    *)
(*   - UniswapV3TickService.getAllTicks   (src/unnamed/part_001)           *)
(*   - calculateLiquidityDistribution     (src/src/format/charts.ts)       *)
(*   - TickUtils.findClosestTickIndex     (src/src/utils/priceUtils.ts)    *)
(*   - PriceUtils price conversions       (src/src/utils/priceUtils.ts)    *)
(*   - TickUtils.calculateTickIndices     (src/src/utils/priceUtils.ts)    *)
(*   - main / getTicksAroundCurrentTick   (src/unnamed/part_000)           *)
(*   - createLiquidityCharts              (src/src/format/charts.ts)       *)
(* Each component has its own specification over the shared variables:     *)
(* Spec (batched retrieval; SpecLive is Spec with the fairness of the      *)
(* event loop), SpecDecode (one bitmap word), SpecScan (the full-range     *)
(* scan), SpecCurve (the liquidity curve), SpecPrice (the price            *)
(* conversions), SpecIndices (the window indices), SpecFlow (the remote    *)
(* reads of main) and SpecCharts (the plotted series).                     *)
(***************************************************************************)
EXTENDS Integers, Sequences, FiniteSets, TLC

VARIABLES
    \* ---- retrieveTicksInBatches ----
    tickIndices,    \* the input index list
    batchSize,      \* the batchSize argument
    rpc,            \* position of the async function
    i,              \* the loop variable of the for loop
    batch,          \* tickIndices.slice(i, i + batchSize)
    batchPromises,  \* the promises of the current batch, by position
    settleOrder,    \* positions of the current batch in the order they settled
    ticks,          \* the output array
    lookupLog,      \* what pool.ticks answered for each input position
    batchLog,       \* the batches sliced so far, in the order they were issued
                    \* (no longer extended once it is longer than the input,
                    \* which only the endless loop of batchSize = 0 gets to)
    delayWaits,     \* number of inter-batch setTimeout waits started (counted
                    \* up to one more than the input is long, as batchLog is)
    inFlight,       \* pool.ticks calls issued and not yet settled
    \* ---- extractTicksFromWord ----
    dWord,          \* the bitmap word (the set of its set bit positions)
    dWordIndex,     \* the word's index in the bitmap
    dTickSpacing,   \* the pool's tick spacing
    dpc,            \* "input" before the call, "done" after
    dTicks,         \* the initializedTicks array the call appended to
    \* ---- getAllTicks ----
    poolTickSpacing,   \* on-chain tickSpacing
    poolBitmap,        \* on-chain tickBitmap: word index -> word
    gpc,               \* position of the async function
    gTickSpacing,      \* the local tickSpacing
    bitmapWords,       \* the awaited bitmapWords array
    initializedTicks,  \* decoded tick indices
    tickDataPromises,  \* position -> promise of ticks(tick)
    ticksCalls,        \* number of poolContract.ticks calls issued
    allTicks,          \* the array getAllTicks resolved with
    \* ---- calculateLiquidityDistribution ----
    window,            \* the ticks argument
    currentTick,       \* the currentTick argument
    currentTickLiquidity,  \* the currentTickLiquidity argument (a bigint)
    cpc,               \* "input", "returned" or "threw"
    liquidityPoints,   \* the returned liquidityPoints
    closestTickIndex,  \* the returned closestTickIndex
    \* ---- PriceUtils ----
    inPrice,           \* the price argument of priceToTick / priceToSqrtPriceX96
    inTick,            \* the tick argument of tickToPriceInQuoteTokens
    inSqrtPriceX96,    \* the sqrtPriceX96 argument of sqrtPriceX96ToPrice
    inToken0Decimals,  \* the token0Decimals argument
    inToken1Decimals,  \* the token1Decimals argument
    inZeroTokenIsQuoteToken,  \* the zeroTokenIsQuoteToken argument
    tickOfPrice,       \* what priceToTick(price) did
    sqrtOfPrice,       \* what priceToSqrtPriceX96(price, ...) did
    sqrtTaken,         \* whether that call got as far as Math.sqrt
    quotePrice,        \* what tickToPriceInQuoteTokens(tick, ...) did
    priceOfSqrt,       \* what sqrtPriceX96ToPrice(sqrtPriceX96, ...) did
    \* ---- calculateTickIndices ----
    ixCurrentTick,     \* the currentTick argument
    ixTickSpacing,     \* the tickSpacing argument
    ixTickCount,       \* the tickCount argument
    ixpc,              \* "input" before the call, "done" after
    ixTickIndices,     \* the returned tickIndices
    \* ---- main ----
    chainTick,         \* slot0.tick of the pool at the latest block
    chainLiquidity,    \* liquidity of the pool at the latest block
    chainTickSpacing,  \* tickSpacing of the pool
    blocks,            \* number of blocks that changed the pool since main began
    mpc,               \* position of main / getTicksAroundCurrentTick
    resultCurrentTick,    \* result.currentTick: the tick the window is built around
    resultTickSpacing,    \* result.tickSpacing
    resultTickIndices,    \* the indices of result.ticks
    totalTicksRetrieved,  \* result.totalTicksRetrieved
    snapshotLiquidity,    \* the pool's liquidity when result.currentTick was read
    mainCurrentLiquidity, \* currentLiquidity of main
    mainCurrentTick,      \* currentTick of main
    anchorTick,           \* the currentTick createLiquidityCharts was called with
    anchorLiquidity,      \* the currentTickLiquidity it was called with
    \* ---- createLiquidityCharts ----
    quoteInZeroToken,  \* the isZeroTokenQuoteToken argument
    chartData,         \* the series of the liquidity distribution chart
    prices,            \* the series of the price progression chart
    chartpc            \* "idle", "input", "returned" or "threw"

retrieveVars == <<tickIndices, batchSize, rpc, i, batch, batchPromises,
                  settleOrder, ticks, lookupLog, batchLog, delayWaits, inFlight>>
decodeVars == <<dWord, dWordIndex, dTickSpacing, dpc, dTicks>>
scanVars == <<poolTickSpacing, poolBitmap, gpc, gTickSpacing, bitmapWords, initializedTicks,
              tickDataPromises, ticksCalls, allTicks>>
curveVars == <<window, currentTick, currentTickLiquidity, cpc, liquidityPoints,
               closestTickIndex>>
priceVars == <<inPrice, inTick, inSqrtPriceX96, inToken0Decimals, inToken1Decimals,
               inZeroTokenIsQuoteToken, tickOfPrice, sqrtOfPrice, sqrtTaken, quotePrice,
               priceOfSqrt>>
indexVars == <<ixCurrentTick, ixTickSpacing, ixTickCount, ixpc, ixTickIndices>>
flowVars == <<chainTick, chainLiquidity, chainTickSpacing, blocks, mpc, resultCurrentTick,
              resultTickSpacing, resultTickIndices, totalTicksRetrieved, snapshotLiquidity,
              mainCurrentLiquidity, mainCurrentTick, anchorTick, anchorLiquidity>>
chartVars == <<quoteInZeroToken, chartData, prices, chartpc>>
vars == <<retrieveVars, decodeVars, scanVars, curveVars, priceVars, indexVars, flowVars,
          chartVars>>

(***************************************************************************)
(* Bounds of the model.                                                    *)
(***************************************************************************)
MaxIndices == 3      \* longest input index list of retrieveTicksInBatches
MaxBatchSize == 3    \* largest batchSize argument
MaxSetBits == 2      \* most set bits of an enumerated bitmap word
MaxWindow == 3       \* longest tick window of the curve reconstruction
MaxTickCount == 4    \* largest tickCount argument of calculateTickIndices
MaxBlocks == 2       \* most changes of the pool while main runs

(***************************************************************************)
(* Helpers.                                                                *)
(***************************************************************************)
Min(a, b) == IF a <= b THEN a ELSE b

Abs(x) == IF x < 0 THEN -x ELSE x

Range(s) == {s[k] : k \in 1..Len(s)}

SeqsUpTo(S, n) == UNION {[1..m -> S] : m \in 0..n}

(***************************************************************************)
(* Tick records.                                                           *)
(***************************************************************************)
\* What pool.ticks(tick) resolves with (UniV3Pool.ticks / TickData).
TickData(gross, net, acc, init) ==
    [liquidityGross |-> gross, liquidityNet |-> net,
     feeGrowthOutside0X128 |-> acc, feeGrowthOutside1X128 |-> acc,
     tickCumulativeOutside |-> acc, secondsPerLiquidityOutsideX128 |-> acc,
     secondsOutside |-> acc, initialized |-> init]

\* The answers of the chain the model draws from: an uninitialized tick and two
\* initialized ones.
TickDataValues == {TickData(0, 0, 0, FALSE), TickData(5, 5, 7, TRUE),
                   TickData(5, -5, 3, TRUE)}

\* { ...tickData, tickIndex }
WithTickIndex(tickData, tickIndex) ==
    [tickIndex |-> tickIndex,
     liquidityGross |-> tickData.liquidityGross,
     liquidityNet |-> tickData.liquidityNet,
     feeGrowthOutside0X128 |-> tickData.feeGrowthOutside0X128,
     feeGrowthOutside1X128 |-> tickData.feeGrowthOutside1X128,
     tickCumulativeOutside |-> tickData.tickCumulativeOutside,
     secondsPerLiquidityOutsideX128 |-> tickData.secondsPerLiquidityOutsideX128,
     secondsOutside |-> tickData.secondsOutside,
     initialized |-> tickData.initialized]

\* The object literal of the catch block.
EmptyTickData(tickIndex) ==
    [tickIndex |-> tickIndex, liquidityGross |-> 0, liquidityNet |-> 0,
     feeGrowthOutside0X128 |-> 0, feeGrowthOutside1X128 |-> 0,
     tickCumulativeOutside |-> 0, secondsPerLiquidityOutsideX128 |-> 0,
     secondsOutside |-> 0, initialized |-> FALSE]

(***************************************************************************)
(* Promises.                                                               *)
(***************************************************************************)
Pending == [state |-> "pending", value |-> <<>>]
Fulfilled(v) == [state |-> "fulfilled", value |-> <<v>>]
Rejected == [state |-> "rejected", value |-> <<>>]

\* A rejection whose error says that the transport is exhausted: contract.read
\* throws whatever the client's transport throws, and pool.ticks passes it on.
Unavailable == [state |-> "rejected", value |-> <<"transport exhausted">>]

\* The outcomes of one pool.ticks call: a failure of the one call, a failure of
\* the transport, or the record of an initialized tick.
LookupOutcomes ==
    {Rejected, Unavailable, Fulfilled(TickData(5, -5, 3, TRUE))}

\* Promise.all is settled: rejected as soon as one promise is, fulfilled when all are.
AllSettled(promises) ==
    \/ \E k \in DOMAIN promises : promises[k].state = "rejected"
    \/ \A k \in DOMAIN promises : promises[k].state = "fulfilled"

AnyRejected(promises) == \E k \in DOMAIN promises : promises[k].state = "rejected"

\* A variant of PromiseAll that lists the values in the order the promises settled.
PromiseAllInSettleOrder(promises, order) ==
    [k \in 1..Len(order) |-> promises[order[k]].value[1]]

\* The value Promise.all fulfils with: the values by position, whatever the order
\* the promises settled in.
PromiseAll(promises, order) ==
    [k \in 1..Len(promises) |-> promises[k].value[1]]

(***************************************************************************)
(* TickUtils.retrieveTicksInBatches                                        *)
(***************************************************************************)
\* The tick indices the input lists are drawn from.
IndexValues == {-60, 600, 1200}

\* A variant of Slice that ignores `to` and takes the whole rest of the array.
SliceToEnd(arr, from, to) ==
    LET lo == Min(from, Len(arr))
    IN  [k \in 1..(Len(arr) - lo) |-> arr[lo + k]]

\* A variant of Slice that also takes the element at position `to`.
SliceInclusive(arr, from, to) ==
    LET lo == Min(from, Len(arr))
        hi == Min(to + 1, Len(arr))
    IN  IF hi <= lo THEN <<>> ELSE [k \in 1..(hi - lo) |-> arr[lo + k]]

\* Array.prototype.slice(from, to) on a 0-based array held as a 1-based sequence.
Slice(arr, from, to) ==
    LET lo == Min(from, Len(arr))
        hi == Min(to, Len(arr))
    IN  IF hi <= lo THEN <<>> ELSE [k \in 1..(hi - lo) |-> arr[lo + k]]

\* A variant of the delay condition that never waits.
DelayNever(from, size, length) == FALSE

\* A variant of the delay condition that also waits after the last batch.
DelayAfterEveryBatch(from, size, length) == TRUE

\* if (i + batchSize < tickIndices.length): a batch is followed by a delay only
\* when another batch comes after it.
DelayNeeded(from, size, length) == from + size < length

\* A variant of the map callback without the try/catch: the rejection escapes.
BatchCallbackNoCatch(tickIndex, outcome) ==
    IF outcome.state = "fulfilled"
    THEN Fulfilled(WithTickIndex(outcome.value[1], tickIndex))
    ELSE Rejected

\* The async callback of batch.map: the promise it returns, given how
\* pool.ticks(tickIndex) settled.
BatchCallback(tickIndex, outcome) ==
    IF outcome.state = "fulfilled"
    THEN Fulfilled(WithTickIndex(outcome.value[1], tickIndex))
    ELSE Fulfilled(EmptyTickData(tickIndex))

InitRetrieve ==
    /\ tickIndices \in SeqsUpTo(IndexValues, MaxIndices)
    /\ batchSize \in 0..MaxBatchSize
    /\ rpc = "loop"
    /\ i = 0
    /\ batch = <<>>
    /\ batchPromises = <<>>
    /\ settleOrder = <<>>
    /\ ticks = <<>>
    /\ lookupLog = [k \in 1..Len(tickIndices) |-> Pending]
    /\ batchLog = <<>>
    /\ delayWaits = 0
    /\ inFlight = 0

IdleRetrieve ==
    /\ tickIndices = <<>>
    /\ batchSize = 1
    /\ rpc = "idle"
    /\ i = 0
    /\ batch = <<>>
    /\ batchPromises = <<>>
    /\ settleOrder = <<>>
    /\ ticks = <<>>
    /\ lookupLog = <<>>
    /\ batchLog = <<>>
    /\ delayWaits = 0
    /\ inFlight = 0

\* The loop condition holds: slice the batch and start one lookup per index.
IssueBatch ==
    /\ rpc = "loop"
    /\ i < Len(tickIndices)
    /\ batch' = Slice(tickIndices, i, i + batchSize)
    /\ batchPromises' = [k \in 1..Len(batch') |-> Pending]
    /\ settleOrder' = <<>>
    /\ rpc' = "await"
    /\ batchLog' = IF Len(batchLog) <= Len(tickIndices)
                   THEN Append(batchLog, batch')
                   ELSE batchLog
    /\ inFlight' = inFlight + Len(batch')
    /\ UNCHANGED <<tickIndices, batchSize, i, ticks, lookupLog, delayWaits>>
    /\ UNCHANGED <<decodeVars, scanVars, curveVars, priceVars, indexVars, flowVars, chartVars>>

\* One pool.ticks call of the batch settles, in any order, either way.
LookupSettles(k, outcome) ==
    /\ rpc = "await"
    /\ k \in DOMAIN batchPromises
    /\ batchPromises[k].state = "pending"
    /\ batchPromises' = [batchPromises EXCEPT ![k] = BatchCallback(batch[k], outcome)]
    /\ settleOrder' = Append(settleOrder, k)
    /\ lookupLog' = [lookupLog EXCEPT ![i + k] = outcome]
    /\ inFlight' = inFlight - 1
    /\ UNCHANGED <<tickIndices, batchSize, rpc, i, batch, ticks, batchLog, delayWaits>>
    /\ UNCHANGED <<decodeVars, scanVars, curveVars, priceVars, indexVars, flowVars, chartVars>>

\* await Promise.all(batchPromises) resumes; ticks.push(...batchResults); then
\* either the inter-batch delay starts or the loop goes on.
BatchSettles ==
    /\ rpc = "await"
    /\ AllSettled(batchPromises)
    /\ IF AnyRejected(batchPromises)
       THEN /\ rpc' = "rejected"
            /\ UNCHANGED <<i, ticks, delayWaits>>
       ELSE /\ ticks' = ticks \o PromiseAll(batchPromises, settleOrder)
            /\ IF DelayNeeded(i, batchSize, Len(tickIndices))
               THEN /\ rpc' = "delay"
                    /\ delayWaits' = IF delayWaits <= Len(tickIndices)
                                      THEN delayWaits + 1
                                      ELSE delayWaits
                    /\ i' = i
               ELSE /\ rpc' = "loop"
                    /\ i' = i + batchSize
                    /\ UNCHANGED delayWaits
    /\ UNCHANGED <<tickIndices, batchSize, batch, batchPromises, settleOrder, lookupLog,
                   batchLog, inFlight>>
    /\ UNCHANGED <<decodeVars, scanVars, curveVars, priceVars, indexVars, flowVars, chartVars>>

\* The setTimeout of the inter-batch delay fires; the loop increments i.
DelayElapses ==
    /\ rpc = "delay"
    /\ i' = i + batchSize
    /\ rpc' = "loop"
    /\ UNCHANGED <<tickIndices, batchSize, batch, batchPromises, settleOrder, ticks,
                   lookupLog, batchLog, delayWaits, inFlight>>
    /\ UNCHANGED <<decodeVars, scanVars, curveVars, priceVars, indexVars, flowVars, chartVars>>

\* The loop condition fails: return ticks.
ReturnTicks ==
    /\ rpc = "loop"
    /\ ~(i < Len(tickIndices))
    /\ rpc' = "done"
    /\ UNCHANGED <<tickIndices, batchSize, i, batch, batchPromises, settleOrder, ticks,
                   lookupLog, batchLog, delayWaits, inFlight>>
    /\ UNCHANGED <<decodeVars, scanVars, curveVars, priceVars, indexVars, flowVars, chartVars>>

NextRetrieve ==
    \/ IssueBatch
    \/ \E k \in DOMAIN batchPromises, outcome \in LookupOutcomes : LookupSettles(k, outcome)
    \/ BatchSettles
    \/ DelayElapses
    \/ ReturnTicks

(***************************************************************************)
(* UniswapV3TickService: tickToWord, wordToTick, extractTicksFromWord      *)
(***************************************************************************)
MIN_TICK == -887272
MAX_TICK == 887272
TICK_BITMAP_WORD_SIZE == 256

\* A bitmap word (a bigint below 2^256) is held as the set of the positions of its
\* set bits, position 0 being the least significant bit: the value of the word is
\* the sum of 2^p over its positions p.
SetMax(S) == CHOOSE x \in S : \A y \in S : y <= x

\* A variant of tickToWord that rounds towards zero.
tickToWordTruncated(tick, tickSpacing) ==
    LET q == Abs(tick) \div (tickSpacing * TICK_BITMAP_WORD_SIZE)
    IN  IF tick < 0 THEN -q ELSE q

\* Math.floor(tick / tickSpacing / TICK_BITMAP_WORD_SIZE): the two divisions are
\* exact enough for the floor of the real quotient (tickSpacing >= 1).
tickToWord(tick, tickSpacing) == tick \div (tickSpacing * TICK_BITMAP_WORD_SIZE)

\* A variant of wordToTick with the sign of the word index lost.
wordToTickUnsigned(word, tickSpacing) == Abs(word) * TICK_BITMAP_WORD_SIZE * tickSpacing

wordToTick(word, tickSpacing) == word * TICK_BITMAP_WORD_SIZE * tickSpacing

\* BigInt.prototype.toString(2): the binary digits, most significant first,
\* without leading zeros ("0" for zero).
ToBinaryString(word) ==
    IF word = {} THEN <<"0">>
    ELSE LET len == SetMax(word) + 1
         IN  [k \in 1..len |-> IF (len - k) \in word THEN "1" ELSE "0"]

\* String.prototype.padStart(targetLength, padString) for a one-character pad.
PadStart(str, targetLength, pad) ==
    IF Len(str) >= targetLength THEN str
    ELSE LET n == targetLength - Len(str)
         IN  [k \in 1..targetLength |-> IF k <= n THEN pad ELSE str[k - n]]

\* str[idx] for a 0-based index.
CharAt(str, idx) == str[idx + 1]

\* The for loop of extractTicksFromWord: positions 0..255 of the string in
\* ascending order, a tick pushed for every "1" whose tick is in the valid range.
ExtractLoop(binaryString, wordStartTick, tickSpacing, out) ==
    LET positions == [k \in 1..TICK_BITMAP_WORD_SIZE |-> k - 1]
        TickAt(idx) == wordStartTick + idx * tickSpacing
        Pushes(idx) == /\ CharAt(binaryString, idx) = "1"
                       /\ TickAt(idx) >= MIN_TICK
                       /\ TickAt(idx) <= MAX_TICK
        kept == SelectSeq(positions, Pushes)
    IN  out \o [k \in 1..Len(kept) |-> TickAt(kept[k])]

\* extractTicksFromWord: the initializedTicks array after the call.
extractTicksFromWord(word, wordStartTick, tickSpacing, ticksBefore) ==
    LET binaryString == PadStart(ToBinaryString(word), TICK_BITMAP_WORD_SIZE, "0")
    IN  ExtractLoop(binaryString, wordStartTick, tickSpacing, ticksBefore)

\* The tick spacings the model draws from: the spacings of the standard fee tiers
\* (1, 10, 60, 200) and a large one whose scan has only the two words -1 and 0.
TickSpacings == {1, 10, 60, 200, 3466}

\* The bit positions (least significant = 0) the enumerated words may have set.
BitPositions == {0, 10, 20, 255}

\* The enumerated bitmap words: at most MaxSetBits of BitPositions set.
Words == {w \in SUBSET BitPositions : Cardinality(w) <= MaxSetBits}

\* The word indices of the full-range scan of getAllTicks: minWord..maxWord.
minWordOf(tickSpacing) == tickToWord(MIN_TICK, tickSpacing)
maxWordOf(tickSpacing) == tickToWord(MAX_TICK, tickSpacing)

\* The words of the scan the model looks at: the first, the last, and the two
\* around tick 0.
WordIndices(tickSpacing) ==
    {minWordOf(tickSpacing), -1, 0, maxWordOf(tickSpacing)}

\* The chain sets bit b of word w only for the tick (w * 256 + b) * tickSpacing, and
\* only ticks of [MIN_TICK, MAX_TICK] are ever initialized: the words a pool's
\* bitmap can hold at index wordIndex.
ChainTickOfBit(wordIndex, b, tickSpacing) ==
    (wordIndex * TICK_BITMAP_WORD_SIZE + b) * tickSpacing

ChainWords(wordIndex, tickSpacing) ==
    {w \in Words : \A b \in w :
        /\ ChainTickOfBit(wordIndex, b, tickSpacing) >= MIN_TICK
        /\ ChainTickOfBit(wordIndex, b, tickSpacing) <= MAX_TICK}

InitDecode ==
    /\ dTickSpacing \in TickSpacings
    /\ dWordIndex \in WordIndices(dTickSpacing)
    /\ dWord \in ChainWords(dWordIndex, dTickSpacing)
    /\ dpc = "input"
    /\ dTicks = <<>>

IdleDecode ==
    /\ dTickSpacing = 1
    /\ dWordIndex = 0
    /\ dWord = {}
    /\ dpc = "idle"
    /\ dTicks = <<>>

\* this.extractTicksFromWord(word, this.wordToTick(minWord + i, tickSpacing),
\* tickSpacing, initializedTicks)
DecodeWord ==
    /\ dpc = "input"
    /\ dTicks' = extractTicksFromWord(dWord, wordToTick(dWordIndex, dTickSpacing),
                                      dTickSpacing, dTicks)
    /\ dpc' = "done"
    /\ UNCHANGED <<dWord, dWordIndex, dTickSpacing>>
    /\ UNCHANGED <<retrieveVars, scanVars, curveVars, priceVars, indexVars, flowVars, chartVars>>

NextDecode == DecodeWord

(***************************************************************************)
(* UniswapV3TickService.getAllTicks                                        *)
(***************************************************************************)
\* The tick spacings of the pools the scan is run on (116 and 2 bitmap words).
ScanTickSpacings == {60, 3466}

\* The pool's bitmaps: zero everywhere but at WordIndices, where any word the
\* chain can hold may stand.
PoolBitmaps(tickSpacing) ==
    LET at == WordIndices(tickSpacing)
        nonZero == {f \in [at -> Words] :
                      \A w \in at : f[w] \in ChainWords(w, tickSpacing)}
    IN  {[w \in minWordOf(tickSpacing)..maxWordOf(tickSpacing) |->
            IF w \in at THEN f[w] ELSE {}] : f \in nonZero}

\* Whether the chain holds tick as initialized.
ChainInitialized(bitmap, tickSpacing, tick) ==
    /\ tick % tickSpacing = 0
    /\ LET compressed == tick \div tickSpacing
           w == compressed \div TICK_BITMAP_WORD_SIZE
           b == compressed % TICK_BITMAP_WORD_SIZE
       IN  w \in DOMAIN bitmap /\ b \in bitmap[w]

\* What the pool contract answers to ticks(tick): the record of an initialized
\* tick, zeros for any other.
ChainTicks(bitmap, tickSpacing, tick) ==
    IF ChainInitialized(bitmap, tickSpacing, tick)
    THEN TickData(5, IF tick < 0 THEN 5 ELSE -5, 7, TRUE)
    ELSE TickData(0, 0, 0, FALSE)

\* The object literal getAllTicks returns per tick.
WithIndex(tickData, tick) ==
    [index |-> tick,
     liquidityGross |-> tickData.liquidityGross,
     liquidityNet |-> tickData.liquidityNet,
     feeGrowthOutside0X128 |-> tickData.feeGrowthOutside0X128,
     feeGrowthOutside1X128 |-> tickData.feeGrowthOutside1X128,
     tickCumulativeOutside |-> tickData.tickCumulativeOutside,
     secondsPerLiquidityOutsideX128 |-> tickData.secondsPerLiquidityOutsideX128,
     secondsOutside |-> tickData.secondsOutside,
     initialized |-> tickData.initialized]

\* The variant of getAllTicks without the early return.
NeverShortCircuits(decoded) == FALSE

\* if (initializedTicks.length === 0) return []
ShortCircuits(decoded) == Len(decoded) = 0

\* !(word && word > 0n): the word is not decoded.
SkipsWord(word) == word = {}

\* The loop over bitmapWords, positions lo..hi (0-based): every word that is not
\* skipped is decoded, in position order, onto the same array.  (The range is
\* halved so that the evaluation stays shallow.)
RECURSIVE DecodeLoop(_, _, _, _, _)
DecodeLoop(words, minWord, tickSpacing, lo, hi) ==
    IF lo > hi THEN <<>>
    ELSE IF lo = hi
    THEN IF SkipsWord(words[lo + 1]) THEN <<>>
         ELSE extractTicksFromWord(words[lo + 1], wordToTick(minWord + lo, tickSpacing),
                                   tickSpacing, <<>>)
    ELSE LET mid == (lo + hi) \div 2
         IN  DecodeLoop(words, minWord, tickSpacing, lo, mid)
                 \o DecodeLoop(words, minWord, tickSpacing, mid + 1, hi)

InitScan ==
    /\ poolTickSpacing \in ScanTickSpacings
    /\ poolBitmap \in PoolBitmaps(poolTickSpacing)
    /\ gpc = "tickSpacing"
    /\ gTickSpacing = 0
    /\ bitmapWords = <<>>
    /\ initializedTicks = <<>>
    /\ tickDataPromises = <<>>
    /\ ticksCalls = 0
    /\ allTicks = <<>>

IdleScan ==
    /\ poolTickSpacing = 1
    /\ poolBitmap = <<>>
    /\ gpc = "idle"
    /\ gTickSpacing = 0
    /\ bitmapWords = <<>>
    /\ initializedTicks = <<>>
    /\ tickDataPromises = <<>>
    /\ ticksCalls = 0
    /\ allTicks = <<>>

\* await this.poolContract.tickSpacing() settles; on success the word range is
\* computed and one tickBitmap call per word is issued.
TickSpacingSettles(ok) ==
    /\ gpc = "tickSpacing"
    /\ IF ok
       THEN /\ gTickSpacing' = poolTickSpacing
            /\ gpc' = "bitmaps"
       ELSE /\ gpc' = "rejected"
            /\ UNCHANGED gTickSpacing
    /\ UNCHANGED <<poolTickSpacing, poolBitmap, bitmapWords, initializedTicks,
                   tickDataPromises, ticksCalls, allTicks>>
    /\ UNCHANGED <<retrieveVars, decodeVars, curveVars, priceVars, indexVars, flowVars, chartVars>>

\* await Promise.all(bitmapPromises) settles: rejected when a tickBitmap call
\* failed; otherwise the words are decoded and either [] is returned or one ticks
\* call per decoded tick is issued.
BitmapsSettle(ok) ==
    /\ gpc = "bitmaps"
    /\ IF ok
       THEN LET minWord == tickToWord(MIN_TICK, gTickSpacing)
                maxWord == tickToWord(MAX_TICK, gTickSpacing)
                words == [k \in 1..(maxWord - minWord + 1) |-> poolBitmap[minWord + k - 1]]
                decoded == DecodeLoop(words, minWord, gTickSpacing, 0, Len(words) - 1)
            IN  /\ bitmapWords' = words
                /\ initializedTicks' = decoded
                /\ IF ShortCircuits(decoded)
                   THEN /\ gpc' = "done"
                        /\ allTicks' = <<>>
                        /\ UNCHANGED <<tickDataPromises, ticksCalls>>
                   ELSE /\ gpc' = "details"
                        /\ tickDataPromises' = [k \in 1..Len(decoded) |-> Pending]
                        /\ ticksCalls' = ticksCalls + Len(decoded)
                        /\ UNCHANGED allTicks
       ELSE /\ gpc' = "rejected"
            /\ UNCHANGED <<bitmapWords, initializedTicks, tickDataPromises, ticksCalls,
                           allTicks>>
    /\ UNCHANGED <<poolTickSpacing, poolBitmap, gTickSpacing>>
    /\ UNCHANGED <<retrieveVars, decodeVars, curveVars, priceVars, indexVars, flowVars, chartVars>>

\* One poolContract.ticks call settles, in any order, either way.  (A rejection
\* rejects Promise.all and resumes getAllTicks before any other call settles.)
TickDataSettles(k, ok) ==
    /\ gpc = "details"
    /\ k \in DOMAIN tickDataPromises
    /\ tickDataPromises[k].state = "pending"
    /\ ~AnyRejected(tickDataPromises)
    /\ tickDataPromises' = [tickDataPromises EXCEPT ![k] =
          IF ok THEN Fulfilled(ChainTicks(poolBitmap, poolTickSpacing, initializedTicks[k]))
          ELSE Rejected]
    /\ UNCHANGED <<poolTickSpacing, poolBitmap, gpc, gTickSpacing, bitmapWords,
                   initializedTicks, ticksCalls, allTicks>>
    /\ UNCHANGED <<retrieveVars, decodeVars, curveVars, priceVars, indexVars, flowVars, chartVars>>

\* await Promise.all(tickDataPromises) settles; the indices are combined with
\* their data.
TickDataAllSettle ==
    /\ gpc = "details"
    /\ AllSettled(tickDataPromises)
    /\ IF AnyRejected(tickDataPromises)
       THEN /\ gpc' = "rejected"
            /\ UNCHANGED allTicks
       ELSE /\ gpc' = "done"
            /\ allTicks' = [k \in 1..Len(initializedTicks) |->
                              WithIndex(tickDataPromises[k].value[1], initializedTicks[k])]
    /\ UNCHANGED <<poolTickSpacing, poolBitmap, gTickSpacing, bitmapWords,
                   initializedTicks, tickDataPromises, ticksCalls>>
    /\ UNCHANGED <<retrieveVars, decodeVars, curveVars, priceVars, indexVars, flowVars, chartVars>>

NextScan ==
    \/ \E ok \in BOOLEAN : TickSpacingSettles(ok)
    \/ \E ok \in BOOLEAN : BitmapsSettle(ok)
    \/ \E k \in DOMAIN tickDataPromises, ok \in BOOLEAN : TickDataSettles(k, ok)
    \/ TickDataAllSettle

(***************************************************************************)
(* Number(bigint) and double arithmetic on integral values                 *)
(***************************************************************************)
\* The significand of an IEEE-754 double holds 53 bits.
MantissaBits == 53

RECURSIVE BitLength(_)
BitLength(n) == IF n = 0 THEN 0 ELSE 1 + BitLength(n \div 2)

\* Number(x) for a bigint x, and the rounding of an integral result of a double
\* operation: exact up to 53 significant bits, else round to nearest, ties to even.
ToNumber(x) ==
    LET a == Abs(x)
        bits == BitLength(a)
    IN  IF bits <= MantissaBits THEN x
        ELSE LET unit == 2 ^ (bits - MantissaBits)
                 q == a \div unit
                 r == a % unit
                 up == (2 * r > unit) \/ (2 * r = unit /\ q % 2 = 1)
                 m == (IF up THEN q + 1 ELSE q) * unit
             IN  IF x < 0 THEN -m ELSE m

(***************************************************************************)
(* TickUtils.findClosestTickIndex                                          *)
(***************************************************************************)
\* arr[idx] for a 0-based index into an array held as a 1-based sequence.
At(arr, idx) == arr[idx + 1]

\* The variant of the comparison that also takes a later tick at the same distance.
CloserOrEqual(distance, minDistance) == distance <= minDistance

\* distance < minDistance
Closer(distance, minDistance) == distance < minDistance

\* The for loop of findClosestTickIndex from position idx on.
RECURSIVE ClosestLoop(_, _, _, _, _)
ClosestLoop(arr, tick, idx, closestIndex, minDistance) ==
    IF ~(idx < Len(arr)) THEN closestIndex
    ELSE LET distance == Abs(At(arr, idx).tickIndex - tick)
         IN  IF Closer(distance, minDistance)
             THEN ClosestLoop(arr, tick, idx + 1, idx, distance)
             ELSE ClosestLoop(arr, tick, idx + 1, closestIndex, minDistance)

\* findClosestTickIndex: ticks[0].tickIndex throws a TypeError on an empty array.
findClosestTickIndex(arr, tick) ==
    IF Len(arr) = 0 THEN [threw |-> TRUE, value |-> 0]
    ELSE [threw |-> FALSE,
          value |-> ClosestLoop(arr, tick, 1, 0, Abs(At(arr, 0).tickIndex - tick))]

(***************************************************************************)
(* calculateLiquidityDistribution                                          *)
(***************************************************************************)
\* The variant of the downward loop that starts at the anchor itself.
DownStartAtAnchor(closest) == closest

\* let i = closestTickIndex - 1
DownStart(closest) == closest - 1

\* The variant of the upward loop that subtracts.
UpStepSubtract(running, net) == ToNumber(running - ToNumber(net))

\* runningLiquidity += Number(ticks[i].liquidityNet)
UpStep(running, net) == ToNumber(running + ToNumber(net))

\* runningLiquidity -= Number(ticks[i].liquidityNet)
DownStep(running, net) == ToNumber(running - ToNumber(net))

\* The downward loop from position idx: points after it.
RECURSIVE DownLoop(_, _, _, _)
DownLoop(arr, points, running, idx) ==
    IF ~(idx >= 0) THEN points
    ELSE LET r == DownStep(running, At(arr, idx).liquidityNet)
         IN  DownLoop(arr, [points EXCEPT ![idx + 1] = r], r, idx - 1)

\* The upward loop from position idx: points after it.
RECURSIVE UpLoop(_, _, _, _)
UpLoop(arr, points, running, idx) ==
    IF ~(idx < Len(arr)) THEN points
    ELSE LET r == UpStep(running, At(arr, idx).liquidityNet)
         IN  UpLoop(arr, [points EXCEPT ![idx + 1] = r], r, idx + 1)

\* calculateLiquidityDistribution: what it returns, or that it threw.
calculateLiquidityDistribution(arr, tick, liquidity) ==
    LET filled == [k \in 1..Len(arr) |-> 0]
        found == findClosestTickIndex(arr, tick)
    IN  IF found.threw
        THEN [threw |-> TRUE, liquidityPoints |-> <<>>, closestTickIndex |-> 0]
        ELSE LET closest == found.value
                 anchored == [filled EXCEPT ![closest + 1] = ToNumber(liquidity)]
                 down == DownLoop(arr, anchored, ToNumber(liquidity), DownStart(closest))
                 up == UpLoop(arr, down, ToNumber(liquidity), closest + 1)
             IN  [threw |-> FALSE, liquidityPoints |-> up, closestTickIndex |-> closest]

\* The tick indices the windows are drawn from, the current ticks and the
\* current liquidities.
WindowTicks == {-60, 0, 100, 160}
CurrentTicks == {-61, -30, 0, 99, 130, 131, 200}
Liquidities == {0, 1000}

\* The ascending sequence of the elements of a finite set of integers.
RECURSIVE SortedSeq(_)
SortedSeq(S) ==
    IF S = {} THEN <<>>
    ELSE LET m == SetMax(S) IN Append(SortedSeq(S \ {m}), m)

\* The index-ascending windows of at most MaxWindow ticks, every record drawn
\* from TickDataValues.
Windows ==
    UNION {
        LET idx == SortedSeq(S)
        IN  {[k \in 1..Len(idx) |-> WithTickIndex(d[k], idx[k])] :
                d \in [1..Len(idx) -> TickDataValues]}
        : S \in {T \in SUBSET WindowTicks : Cardinality(T) <= MaxWindow}}

InitCurve ==
    /\ window \in Windows
    /\ currentTick \in CurrentTicks
    /\ currentTickLiquidity \in Liquidities
    /\ cpc = "input"
    /\ liquidityPoints = <<>>
    /\ closestTickIndex = 0

IdleCurve ==
    /\ window = <<>>
    /\ currentTick = 0
    /\ currentTickLiquidity = 0
    /\ cpc = "idle"
    /\ liquidityPoints = <<>>
    /\ closestTickIndex = 0

\* calculateLiquidityDistribution(ticks, currentTick, currentTickLiquidity)
Calculate ==
    /\ cpc = "input"
    /\ LET res == calculateLiquidityDistribution(window, currentTick, currentTickLiquidity)
       IN  /\ cpc' = IF res.threw THEN "threw" ELSE "returned"
           /\ liquidityPoints' = res.liquidityPoints
           /\ closestTickIndex' = res.closestTickIndex
    /\ UNCHANGED <<window, currentTick, currentTickLiquidity>>
    /\ UNCHANGED <<retrieveVars, decodeVars, scanVars, priceVars, indexVars, flowVars, chartVars>>

NextCurve == Calculate

(***************************************************************************)
(* PriceUtils                                                              *)
(***************************************************************************)
\* A JavaScript number as the price functions see it.  A finite non-zero number
\* is held exactly, as a product of powers of the two bases the functions work
\* with: sign * (1.0001^(log/2) * 10^exp10)^(1/root).  Rounding to a double is
\* left out; NaN, the infinities and zero are kinds of their own.
Finite(kind, log, exp10) == [kind |-> kind, log |-> log, exp10 |-> exp10, root |-> 1]
Zero == [kind |-> "zero", log |-> 0, exp10 |-> 0, root |-> 1]
NaN == [kind |-> "nan", log |-> 0, exp10 |-> 0, root |-> 1]
PlusInfinity == [kind |-> "inf", log |-> 0, exp10 |-> 0, root |-> 1]
MinusInfinity == [kind |-> "ninf", log |-> 0, exp10 |-> 0, root |-> 1]

\* x * Math.pow(10, k)
MulPow10(x, k) ==
    IF x.kind \in {"pos", "neg"} THEN [x EXCEPT !.exp10 = @ + k * x.root] ELSE x

\* x / Math.pow(10, k)
DivPow10(x, k) ==
    IF x.kind \in {"pos", "neg"} THEN [x EXCEPT !.exp10 = @ - k * x.root] ELSE x

\* 1 / x
Reciprocal(x) ==
    CASE x.kind \in {"pos", "neg"} -> [x EXCEPT !.log = -@, !.exp10 = -@]
      [] x.kind = "zero" -> PlusInfinity
      [] x.kind \in {"inf", "ninf"} -> Zero
      [] OTHER -> NaN

\* Math.sqrt(x)
MathSqrt(x) ==
    CASE x.kind = "pos" -> [x EXCEPT !.root = 2 * @]
      [] x.kind \in {"zero", "inf"} -> x
      [] OTHER -> NaN

\* x ** 2
Square(x) ==
    CASE x.kind \in {"pos", "neg"} ->
            IF x.root % 2 = 0
            THEN [x EXCEPT !.kind = "pos", !.root = @ \div 2]
            ELSE [x EXCEPT !.kind = "pos", !.log = 2 * @, !.exp10 = 2 * @]
      [] x.kind = "ninf" -> PlusInfinity
      [] OTHER -> x

\* The sign of the rounding error of a computation in doubles: the result is
\* below, at or above the exact value.
Roundings == {-1, 0, 1}

\* A variant of FloorLog that does not divide by Math.log(1.0001), which is
\* 1/10000 to four digits.
FloorNaturalLog(x, rounding) ==
    CASE x.kind = "pos" -> [kind |-> "int", value |-> (x.log \div 2) \div 10000]
      [] x.kind = "zero" -> [kind |-> "ninf", value |-> 0]
      [] x.kind = "inf" -> [kind |-> "inf", value |-> 0]
      [] OTHER -> [kind |-> "nan", value |-> 0]

\* Math.floor(Math.log(x) / Math.log(1.0001)) for x a power of 1.0001^(1/2):
\* the logarithm to base 1.0001 is log / 2.  The quotient carries the rounding
\* of x, of the logarithms and of the division, which is many orders of
\* magnitude below half a tick and so matters only when the exact quotient is an
\* integer: rounded to below it, the floor is one less.
FloorLog(x, rounding) ==
    CASE x.kind = "pos" ->
            [kind |-> "int",
             value |-> IF x.log % 2 = 0 /\ rounding < 0
                       THEN x.log \div 2 - 1
                       ELSE x.log \div 2]
      [] x.kind = "zero" -> [kind |-> "ninf", value |-> 0]
      [] x.kind = "inf" -> [kind |-> "inf", value |-> 0]
      [] OTHER -> [kind |-> "nan", value |-> 0]

\* What a call did: nothing yet, returned a value, or threw.
NotCalled == [status |-> "none", value |-> <<>>]
Returned(v) == [status |-> "returned", value |-> <<v>>]
Threw(error) == [status |-> "threw", value |-> <<error>>]

\* BigInt(Math.floor(y * Math.pow(2, 96))): the encoding of y, or the RangeError
\* BigInt throws for a number that is not an integer.
ToX96(y) ==
    IF y.kind \in {"pos", "zero"} THEN Returned([x96 |-> y]) ELSE Threw("RangeError")

\* Number(sqrtPriceX96) / Math.pow(2, 96)
FromX96(sqrtPriceX96) == sqrtPriceX96.x96

\* sqrtPriceX96ToPrice(sqrtPriceX96, token0Decimals, token1Decimals)
sqrtPriceX96ToPrice(sqrtPriceX96, d0, d1) ==
    LET price == Square(FromX96(sqrtPriceX96))
    IN  MulPow10(price, d1 - d0)

\* priceToSqrtPriceX96(price, token0Decimals, token1Decimals): what it returns or
\* throws, and whether Math.sqrt has run by then.
priceToSqrtPriceX96(price, d0, d1) ==
    LET adjustedPrice == DivPow10(price, d1 - d0)
        sqrtPrice == MathSqrt(adjustedPrice)
    IN  [outcome |-> ToX96(sqrtPrice), sqrtTaken |-> TRUE]

\* priceToTick(price)
priceToTick(price, rounding) == FloorLog(price, rounding)

\* tickToPrice(tick)
tickToPrice(tick) == Finite("pos", 2 * tick, 0)

\* tickToPriceInQuoteTokens(tick, token0Decimals, token1Decimals,
\* zeroTokenIsQuoteToken)
tickToPriceInQuoteTokens(tick, d0, d1, zeroTokenIsQuoteToken) ==
    LET price == tickToPrice(tick)
        adjustedPrice == DivPow10(price, d1 - d0)
    IN  IF zeroTokenIsQuoteToken THEN Reciprocal(adjustedPrice) ELSE adjustedPrice

\* The ticks, raw prices, encoded square-root prices and token decimals the
\* calls are made with.  Raw prices lie on ticks (even log) and between them.
PriceTicks == {MIN_TICK, -1, 0, 600, MAX_TICK}
PriceInputs ==
    {Zero, NaN, PlusInfinity, MinusInfinity, Finite("neg", 0, 0)}
        \cup {tickToPrice(t) : t \in PriceTicks}
        \cup {Finite("pos", l, 0) : l \in {-3, 1}}
SqrtPriceInputs == {[x96 |-> MathSqrt(tickToPrice(t))] : t \in {-1, 0, 600}}
TokenDecimals == {6, 18}

InitPrice ==
    /\ inPrice \in PriceInputs
    /\ inTick \in PriceTicks
    /\ inSqrtPriceX96 \in SqrtPriceInputs
    /\ inToken0Decimals \in TokenDecimals
    /\ inToken1Decimals \in TokenDecimals
    /\ inZeroTokenIsQuoteToken \in BOOLEAN
    /\ tickOfPrice = NotCalled
    /\ sqrtOfPrice = NotCalled
    /\ sqrtTaken = FALSE
    /\ quotePrice = NotCalled
    /\ priceOfSqrt = NotCalled

IdlePrice ==
    /\ inPrice = Zero
    /\ inTick = 0
    /\ inSqrtPriceX96 = [x96 |-> Zero]
    /\ inToken0Decimals = 18
    /\ inToken1Decimals = 18
    /\ inZeroTokenIsQuoteToken = FALSE
    /\ tickOfPrice = NotCalled
    /\ sqrtOfPrice = NotCalled
    /\ sqrtTaken = FALSE
    /\ quotePrice = NotCalled
    /\ priceOfSqrt = NotCalled

\* PriceUtils.priceToTick(price)
CallPriceToTick(rounding) ==
    /\ tickOfPrice = NotCalled
    /\ tickOfPrice' = Returned(priceToTick(inPrice, rounding))
    /\ UNCHANGED <<inPrice, inTick, inSqrtPriceX96, inToken0Decimals, inToken1Decimals,
                   inZeroTokenIsQuoteToken, sqrtOfPrice, sqrtTaken, quotePrice, priceOfSqrt>>
    /\ UNCHANGED <<retrieveVars, decodeVars, scanVars, curveVars, indexVars, flowVars, chartVars>>

\* PriceUtils.priceToSqrtPriceX96(price, token0Decimals, token1Decimals)
CallPriceToSqrtPriceX96 ==
    /\ sqrtOfPrice = NotCalled
    /\ LET call == priceToSqrtPriceX96(inPrice, inToken0Decimals, inToken1Decimals)
       IN  /\ sqrtOfPrice' = call.outcome
           /\ sqrtTaken' = call.sqrtTaken
    /\ UNCHANGED <<inPrice, inTick, inSqrtPriceX96, inToken0Decimals, inToken1Decimals,
                   inZeroTokenIsQuoteToken, tickOfPrice, quotePrice, priceOfSqrt>>
    /\ UNCHANGED <<retrieveVars, decodeVars, scanVars, curveVars, indexVars, flowVars, chartVars>>

\* PriceUtils.tickToPriceInQuoteTokens(tick, token0Decimals, token1Decimals,
\* zeroTokenIsQuoteToken)
CallTickToPriceInQuoteTokens ==
    /\ quotePrice = NotCalled
    /\ quotePrice' = Returned(tickToPriceInQuoteTokens(inTick, inToken0Decimals,
                                  inToken1Decimals, inZeroTokenIsQuoteToken))
    /\ UNCHANGED <<inPrice, inTick, inSqrtPriceX96, inToken0Decimals, inToken1Decimals,
                   inZeroTokenIsQuoteToken, tickOfPrice, sqrtOfPrice, sqrtTaken, priceOfSqrt>>
    /\ UNCHANGED <<retrieveVars, decodeVars, scanVars, curveVars, indexVars, flowVars, chartVars>>

\* PriceUtils.sqrtPriceX96ToPrice(sqrtPriceX96, token0Decimals, token1Decimals)
CallSqrtPriceX96ToPrice ==
    /\ priceOfSqrt = NotCalled
    /\ priceOfSqrt' = Returned(sqrtPriceX96ToPrice(inSqrtPriceX96, inToken0Decimals,
                                   inToken1Decimals))
    /\ UNCHANGED <<inPrice, inTick, inSqrtPriceX96, inToken0Decimals, inToken1Decimals,
                   inZeroTokenIsQuoteToken, tickOfPrice, sqrtOfPrice, sqrtTaken, quotePrice>>
    /\ UNCHANGED <<retrieveVars, decodeVars, scanVars, curveVars, indexVars, flowVars, chartVars>>

NextPrice ==
    \/ \E rounding \in Roundings : CallPriceToTick(rounding)
    \/ CallPriceToSqrtPriceX96
    \/ CallTickToPriceInQuoteTokens
    \/ CallSqrtPriceX96ToPrice

(***************************************************************************)
(* TickUtils.calculateTickIndices                                          *)
(***************************************************************************)
\* A variant of AlignedTick that rounds the quotient towards zero.
AlignedTickTruncated(current, tickSpacing) ==
    LET q == Abs(current) \div tickSpacing
    IN  (IF current < 0 THEN -q ELSE q) * tickSpacing

\* Math.floor(currentTick / tickSpacing) * tickSpacing
AlignedTick(current, tickSpacing) == (current \div tickSpacing) * tickSpacing

\* calculateTickIndices(currentTick, tickSpacing, tickCount): the loop runs i from
\* -halfCount to halfCount inclusive and pushes alignedTick + i * tickSpacing.
calculateTickIndices(current, tickSpacing, tickCount) ==
    LET halfCount == tickCount \div 2
        alignedTick == AlignedTick(current, tickSpacing)
    IN  [k \in 1..(2 * halfCount + 1) |-> alignedTick + (k - 1 - halfCount) * tickSpacing]

\* The current ticks and tick spacings calculateTickIndices is called with.
IndexCurrentTicks == {MIN_TICK, -61, -60, -1, 0, 59, 60, 130, MAX_TICK}
IndexTickSpacings == {1, 10, 60, 200}

InitIndices ==
    /\ ixCurrentTick \in IndexCurrentTicks
    /\ ixTickSpacing \in IndexTickSpacings
    /\ ixTickCount \in 0..MaxTickCount
    /\ ixpc = "input"
    /\ ixTickIndices = <<>>

IdleIndices ==
    /\ ixCurrentTick = 0
    /\ ixTickSpacing = 1
    /\ ixTickCount = 0
    /\ ixpc = "idle"
    /\ ixTickIndices = <<>>

\* TickUtils.calculateTickIndices(currentTick, tickSpacing, tickCount)
CalculateTickIndices ==
    /\ ixpc = "input"
    /\ ixTickIndices' = calculateTickIndices(ixCurrentTick, ixTickSpacing, ixTickCount)
    /\ ixpc' = "done"
    /\ UNCHANGED <<ixCurrentTick, ixTickSpacing, ixTickCount>>
    /\ UNCHANGED <<retrieveVars, decodeVars, scanVars, curveVars, priceVars, flowVars, chartVars>>

NextIndices == CalculateTickIndices

(***************************************************************************)
(* main: getTicksAroundCurrentTick followed by createLiquidityCharts        *)
(***************************************************************************)
\* config.tickCount of main.
ConfigTickCount == 100

\* The states the pool goes through on chain: slot0.tick and liquidity change
\* with every swap; tickSpacing is immutable.
ChainTickValues == {-60, 0, 130}
ChainLiquidities == {1000, 2000}
ChainTickSpacings == {10, 60}

InitFlow ==
    /\ chainTick \in ChainTickValues
    /\ chainLiquidity \in ChainLiquidities
    /\ chainTickSpacing \in ChainTickSpacings
    /\ blocks = 0
    /\ mpc = "slot0"
    /\ resultCurrentTick = 0
    /\ resultTickSpacing = 0
    /\ resultTickIndices = <<>>
    /\ totalTicksRetrieved = 0
    /\ snapshotLiquidity = 0
    /\ mainCurrentLiquidity = 0
    /\ mainCurrentTick = 0
    /\ anchorTick = 0
    /\ anchorLiquidity = 0

IdleFlow ==
    /\ chainTick = 0
    /\ chainLiquidity = 0
    /\ chainTickSpacing = 1
    /\ blocks = 0
    /\ mpc = "idle"
    /\ resultCurrentTick = 0
    /\ resultTickSpacing = 0
    /\ resultTickIndices = <<>>
    /\ totalTicksRetrieved = 0
    /\ snapshotLiquidity = 0
    /\ mainCurrentLiquidity = 0
    /\ mainCurrentTick = 0
    /\ anchorTick = 0
    /\ anchorLiquidity = 0

\* A block with a swap is mined while main runs: the pool's tick and liquidity
\* change.  Every read of main goes to the latest block.
PoolMoves(tick, liquidity) ==
    /\ mpc \notin {"idle", "done", "failed"}
    /\ blocks < MaxBlocks
    /\ <<tick, liquidity>> # <<chainTick, chainLiquidity>>
    /\ chainTick' = tick
    /\ chainLiquidity' = liquidity
    /\ blocks' = blocks + 1
    /\ UNCHANGED <<chainTickSpacing, mpc, resultCurrentTick, resultTickSpacing,
                   resultTickIndices, totalTicksRetrieved, snapshotLiquidity,
                   mainCurrentLiquidity, mainCurrentTick, anchorTick, anchorLiquidity>>
    /\ UNCHANGED <<retrieveVars, decodeVars, scanVars, curveVars, priceVars, indexVars, chartVars>>

\* getTicksAroundCurrentTick: await pool.slot0() settles; currentTick is taken
\* from it.  (snapshotLiquidity notes the liquidity the pool had at that read.)
ReadSlot0(ok) ==
    /\ mpc = "slot0"
    /\ IF ok
       THEN /\ resultCurrentTick' = chainTick
            /\ snapshotLiquidity' = chainLiquidity
            /\ mpc' = "tickSpacing"
       ELSE /\ mpc' = "failed"
            /\ UNCHANGED <<resultCurrentTick, snapshotLiquidity>>
    /\ UNCHANGED <<chainTick, chainLiquidity, chainTickSpacing, blocks, resultTickSpacing,
                   resultTickIndices, totalTicksRetrieved, mainCurrentLiquidity,
                   mainCurrentTick, anchorTick, anchorLiquidity>>
    /\ UNCHANGED <<retrieveVars, decodeVars, scanVars, curveVars, priceVars, indexVars, chartVars>>

\* await pool.tickSpacing() settles; the tick indices are calculated and
\* retrieveTicksInBatches is called.
ReadTickSpacing(ok) ==
    /\ mpc = "tickSpacing"
    /\ IF ok
       THEN /\ resultTickSpacing' = chainTickSpacing
            /\ resultTickIndices' =
                  calculateTickIndices(resultCurrentTick, chainTickSpacing, ConfigTickCount)
            /\ mpc' = "retrieve"
       ELSE /\ mpc' = "failed"
            /\ UNCHANGED <<resultTickSpacing, resultTickIndices>>
    /\ UNCHANGED <<chainTick, chainLiquidity, chainTickSpacing, blocks, resultCurrentTick,
                   totalTicksRetrieved, snapshotLiquidity, mainCurrentLiquidity,
                   mainCurrentTick, anchorTick, anchorLiquidity>>
    /\ UNCHANGED <<retrieveVars, decodeVars, scanVars, curveVars, priceVars, indexVars, chartVars>>

\* await TickUtils.retrieveTicksInBatches(...) resolves (with one record per
\* index; the retrieval itself is the subject of Spec); the result is returned
\* to main, which prints it and calls result.pool.liquidity().
TicksRetrieved ==
    /\ mpc = "retrieve"
    /\ totalTicksRetrieved' = Len(resultTickIndices)
    /\ mpc' = "liquidity"
    /\ UNCHANGED <<chainTick, chainLiquidity, chainTickSpacing, blocks, resultCurrentTick,
                   resultTickSpacing, resultTickIndices, snapshotLiquidity,
                   mainCurrentLiquidity, mainCurrentTick, anchorTick, anchorLiquidity>>
    /\ UNCHANGED <<retrieveVars, decodeVars, scanVars, curveVars, priceVars, indexVars, chartVars>>

\* main: await result.pool.liquidity() settles.
ReadLiquidity(ok) ==
    /\ mpc = "liquidity"
    /\ IF ok
       THEN /\ mainCurrentLiquidity' = chainLiquidity
            /\ mpc' = "slot0Again"
       ELSE /\ mpc' = "failed"
            /\ UNCHANGED mainCurrentLiquidity
    /\ UNCHANGED <<chainTick, chainLiquidity, chainTickSpacing, blocks, resultCurrentTick,
                   resultTickSpacing, resultTickIndices, totalTicksRetrieved,
                   snapshotLiquidity, mainCurrentTick, anchorTick, anchorLiquidity>>
    /\ UNCHANGED <<retrieveVars, decodeVars, scanVars, curveVars, priceVars, indexVars, chartVars>>

\* main: await result.pool.slot0() settles; currentTick is taken from it.
ReadSlot0Again(ok) ==
    /\ mpc = "slot0Again"
    /\ IF ok
       THEN /\ mainCurrentTick' = chainTick
            /\ mpc' = "charts"
       ELSE /\ mpc' = "failed"
            /\ UNCHANGED mainCurrentTick
    /\ UNCHANGED <<chainTick, chainLiquidity, chainTickSpacing, blocks, resultCurrentTick,
                   resultTickSpacing, resultTickIndices, totalTicksRetrieved,
                   snapshotLiquidity, mainCurrentLiquidity, anchorTick, anchorLiquidity>>
    /\ UNCHANGED <<retrieveVars, decodeVars, scanVars, curveVars, priceVars, indexVars, chartVars>>

\* createLiquidityCharts(currentTick, currentLiquidity, result, quoteInZeroToken):
\* the curve is anchored at main's currentTick and currentLiquidity.
CreateLiquidityCharts ==
    /\ mpc = "charts"
    /\ anchorTick' = mainCurrentTick
    /\ anchorLiquidity' = mainCurrentLiquidity
    /\ mpc' = "done"
    /\ UNCHANGED <<chainTick, chainLiquidity, chainTickSpacing, blocks, resultCurrentTick,
                   resultTickSpacing, resultTickIndices, totalTicksRetrieved,
                   snapshotLiquidity, mainCurrentLiquidity, mainCurrentTick>>
    /\ UNCHANGED <<retrieveVars, decodeVars, scanVars, curveVars, priceVars, indexVars, chartVars>>

NextFlow ==
    \/ \E tick \in ChainTickValues, liquidity \in ChainLiquidities : PoolMoves(tick, liquidity)
    \/ \E ok \in BOOLEAN : ReadSlot0(ok)
    \/ \E ok \in BOOLEAN : ReadTickSpacing(ok)
    \/ TicksRetrieved
    \/ \E ok \in BOOLEAN : ReadLiquidity(ok)
    \/ \E ok \in BOOLEAN : ReadSlot0Again(ok)
    \/ CreateLiquidityCharts

(***************************************************************************)
(* createLiquidityCharts                                                   *)
(***************************************************************************)
\* Array.prototype.reverse
Reverse(s) == [k \in 1..Len(s) |-> s[Len(s) + 1 - k]]

\* A plotted value together with the index of the window tick it was computed
\* for.  The charts plot the values only; the tick index is kept to tell which
\* tick each position of a series stands for.
Point(tickIndex, value) == [tickIndex |-> tickIndex, value |-> value]

\* The series createLiquidityDistributionChart hands to asciichart.plot
\* (chartData); nothing is plotted for an empty list.
LiquidityChartData(arr, points, flag) ==
    LET series == [k \in 1..Len(points) |-> Point(arr[k].tickIndex, points[k])]
    IN  IF Len(points) = 0 THEN <<>>
        ELSE IF flag THEN series ELSE Reverse(series)

\* The series createPriceProgressionChart hands to asciichart.plot (prices).
PriceChartData(arr, baseDecimals, quoteDecimals, flag) ==
    LET token0Decimals == IF flag THEN quoteDecimals ELSE baseDecimals
        token1Decimals == IF flag THEN baseDecimals ELSE quoteDecimals
        series == [k \in 1..Len(arr) |->
                     Point(arr[k].tickIndex,
                           tickToPriceInQuoteTokens(arr[k].tickIndex, token0Decimals,
                                                    token1Decimals, flag))]
    IN  IF flag THEN Reverse(series) ELSE series

InitChart ==
    /\ quoteInZeroToken = FALSE
    /\ chartData = <<>>
    /\ prices = <<>>
    /\ chartpc = "input"

IdleChart ==
    /\ quoteInZeroToken = FALSE
    /\ chartData = <<>>
    /\ prices = <<>>
    /\ chartpc = "idle"

\* createLiquidityCharts(currentTick, currentTickLiquidity, result,
\* isZeroTokenQuoteToken) on a pool whose tokens have the given decimals: the
\* distribution is calculated, then the charts are created from it.
PlotCharts(flag, decimals0, decimals1) ==
    /\ cpc = "input"
    /\ chartpc = "input"
    /\ LET baseDecimals == IF flag THEN decimals1 ELSE decimals0
           quoteDecimals == IF flag THEN decimals0 ELSE decimals1
           res == calculateLiquidityDistribution(window, currentTick, currentTickLiquidity)
       IN  /\ cpc' = IF res.threw THEN "threw" ELSE "returned"
           /\ liquidityPoints' = res.liquidityPoints
           /\ closestTickIndex' = res.closestTickIndex
           /\ quoteInZeroToken' = flag
           /\ IF res.threw
              THEN /\ chartpc' = "threw"
                   /\ UNCHANGED <<chartData, prices>>
              ELSE /\ chartpc' = "returned"
                   /\ chartData' = LiquidityChartData(window, res.liquidityPoints, flag)
                   /\ prices' = PriceChartData(window, baseDecimals, quoteDecimals, flag)
    /\ UNCHANGED <<window, currentTick, currentTickLiquidity>>
    /\ UNCHANGED <<retrieveVars, decodeVars, scanVars, priceVars, indexVars, flowVars>>

NextChart ==
    \E flag \in BOOLEAN, decimals0 \in TokenDecimals, decimals1 \in TokenDecimals :
        PlotCharts(flag, decimals0, decimals1)

(***************************************************************************)
(* The specifications.                                                     *)
(***************************************************************************)
\* retrieveTicksInBatches
Init == InitRetrieve /\ IdleDecode /\ IdleScan /\ IdleCurve /\ IdlePrice /\ IdleIndices /\ IdleFlow
            /\ IdleChart
Next == NextRetrieve
Spec == Init /\ [][Next]_vars

\* retrieveTicksInBatches when the event loop runs every step that is ready:
\* the function's own continuations, the settling of every lookup issued and
\* the firing of every inter-batch timer.
Fairness ==
    /\ WF_vars(IssueBatch)
    /\ WF_vars(\E k \in DOMAIN batchPromises, outcome \in LookupOutcomes :
                   LookupSettles(k, outcome))
    /\ WF_vars(BatchSettles)
    /\ WF_vars(DelayElapses)
    /\ WF_vars(ReturnTicks)
SpecLive == Init /\ [][Next]_vars /\ Fairness

\* extractTicksFromWord
InitD == IdleRetrieve /\ InitDecode /\ IdleScan /\ IdleCurve /\ IdlePrice /\ IdleIndices /\ IdleFlow
            /\ IdleChart
NextD == NextDecode
SpecDecode == InitD /\ [][NextD]_vars

\* getAllTicks
InitS == IdleRetrieve /\ IdleDecode /\ InitScan /\ IdleCurve /\ IdlePrice /\ IdleIndices /\ IdleFlow
            /\ IdleChart
NextS == NextScan
SpecScan == InitS /\ [][NextS]_vars

\* calculateLiquidityDistribution
InitC == IdleRetrieve /\ IdleDecode /\ IdleScan /\ InitCurve /\ IdlePrice /\ IdleIndices /\ IdleFlow
            /\ IdleChart
NextC == NextCurve
SpecCurve == InitC /\ [][NextC]_vars

\* PriceUtils
InitP == IdleRetrieve /\ IdleDecode /\ IdleScan /\ IdleCurve /\ InitPrice /\ IdleIndices /\ IdleFlow
            /\ IdleChart
NextP == NextPrice
SpecPrice == InitP /\ [][NextP]_vars

\* calculateTickIndices
InitI == IdleRetrieve /\ IdleDecode /\ IdleScan /\ IdleCurve /\ IdlePrice /\ InitIndices /\ IdleFlow
            /\ IdleChart
NextI == NextIndices
SpecIndices == InitI /\ [][NextI]_vars

\* main
InitF == IdleRetrieve /\ IdleDecode /\ IdleScan /\ IdleCurve /\ IdlePrice /\ IdleIndices
            /\ InitFlow /\ IdleChart
NextF == NextFlow
SpecFlow == InitF /\ [][NextF]_vars

\* createLiquidityCharts
InitCh == IdleRetrieve /\ IdleDecode /\ IdleScan /\ InitCurve /\ IdlePrice /\ IdleIndices
             /\ IdleFlow /\ InitChart
NextCh == NextChart
SpecCharts == InitCh /\ [][NextCh]_vars

(***************************************************************************)
(* Properties of retrieveTicksInBatches (checked under Spec).              *)
(***************************************************************************)
\* C1: for every batchSize >= 1, the returned array has the length of the input
\* index list and its k-th element carries the k-th input index, whatever the
\* order the lookups of a batch settled in and whichever of them failed.
C1_OrderAndLengthPreserved ==
    (rpc = "done" /\ batchSize >= 1) =>
        /\ Len(ticks) = Len(tickIndices)
        /\ \A k \in 1..Len(tickIndices) : ticks[k].tickIndex = tickIndices[k]

\* A run whose only batch settled out of order, with a failed lookup, over
\* three different indices.
C1_Witness ==
    /\ rpc = "done"
    /\ batchSize = 3
    /\ tickIndices = <<600, -60, 1200>>
    /\ settleOrder = <<3, 1, 2>>
    /\ lookupLog[1] = Rejected
    /\ Len(ticks) = 3

\* C2: a failed lookup yields, for its index, the zero-valued record with
\* initialized = false tagged with that index; every other index gets the record
\* its own lookup returned; and the call never ends in an error.
C2_FailureBecomesSentinel ==
    /\ rpc # "rejected"
    /\ (rpc = "done" /\ batchSize >= 1) =>
          /\ Len(ticks) = Len(tickIndices)
          /\ \A k \in 1..Len(tickIndices) :
                /\ lookupLog[k].state \in {"fulfilled", "rejected"}
                /\ ticks[k].tickIndex = tickIndices[k]
                /\ lookupLog[k].state = "rejected" =>
                      /\ ticks[k].initialized = FALSE
                      /\ ticks[k].liquidityGross = 0
                      /\ ticks[k].liquidityNet = 0
                      /\ ticks[k].feeGrowthOutside0X128 = 0
                      /\ ticks[k].feeGrowthOutside1X128 = 0
                      /\ ticks[k].tickCumulativeOutside = 0
                      /\ ticks[k].secondsPerLiquidityOutsideX128 = 0
                      /\ ticks[k].secondsOutside = 0
                /\ lookupLog[k].state = "fulfilled" =>
                      LET d == lookupLog[k].value[1]
                      IN  /\ ticks[k].initialized = d.initialized
                          /\ ticks[k].liquidityGross = d.liquidityGross
                          /\ ticks[k].liquidityNet = d.liquidityNet
                          /\ ticks[k].feeGrowthOutside0X128 = d.feeGrowthOutside0X128
                          /\ ticks[k].feeGrowthOutside1X128 = d.feeGrowthOutside1X128
                          /\ ticks[k].tickCumulativeOutside = d.tickCumulativeOutside
                          /\ ticks[k].secondsPerLiquidityOutsideX128
                                = d.secondsPerLiquidityOutsideX128
                          /\ ticks[k].secondsOutside = d.secondsOutside

\* A finished run of two batches: the first lookup failed, the second of the same
\* batch and the one of the later batch returned an initialized tick.
C2_Witness ==
    /\ rpc = "done"
    /\ batchSize = 2
    /\ tickIndices = <<600, 1200, -60>>
    /\ lookupLog[1] = Rejected
    /\ lookupLog[2] = Fulfilled(TickData(5, -5, 3, TRUE))
    /\ lookupLog[3] = Fulfilled(TickData(5, -5, 3, TRUE))
    /\ ticks[2].initialized /\ ticks[3].initialized

(***************************************************************************)
(* Properties of extractTicksFromWord (checked under SpecDecode).          *)
(***************************************************************************)
\* C3: decoding a word emits wordStartTick + b * tickSpacing exactly for the set
\* bit positions b, counted from the least significant bit (every word of the
\* model has all its set bits on ticks of the valid range).
C3_DecodesFromLeastSignificantBit ==
    dpc = "done" =>
        Range(dTicks) = {wordToTick(dWordIndex, dTickSpacing) + b * dTickSpacing : b \in dWord}

\* C9: decoding a word returns as many tick indices as the word has set bits.
C9_CountEqualsSetBits ==
    dpc = "done" => Len(dTicks) = Cardinality(dWord)

(***************************************************************************)
(* Properties of getAllTicks (checked under SpecScan).                     *)
(***************************************************************************)
\* The bitmap words were fetched and every one of them is zero.
FetchedAllZero ==
    /\ Len(bitmapWords) > 0
    /\ \A k \in 1..Len(bitmapWords) : bitmapWords[k] = {}

\* C10: when every fetched bitmap word is zero, getAllTicks returns the empty
\* array at once: it issues no poolContract.ticks call and never awaits a batch
\* of details.
C10_AllZeroReturnsEmptyWithoutLookups ==
    /\ (\A w \in DOMAIN poolBitmap : poolBitmap[w] = {}) => ticksCalls = 0
    /\ FetchedAllZero =>
          /\ gpc = "done"
          /\ allTicks = <<>>
          /\ ticksCalls = 0

\* A scan of the 116 words of a pool of spacing 60, all zero, that has returned.
C10_Witness ==
    /\ gpc = "done"
    /\ gTickSpacing = 60
    /\ FetchedAllZero
    /\ Len(bitmapWords) = 116
    /\ allTicks = <<>>

(***************************************************************************)
(* Properties of calculateLiquidityDistribution (checked under SpecCurve). *)
(***************************************************************************)
\* C4: below the anchor, curve[p] = curve[p+1] - liquidityNet(window[p+1]).
C4_DownwardWalk ==
    cpc = "returned" =>
        \A p \in 0..(closestTickIndex - 1) :
            At(liquidityPoints, p)
                = At(liquidityPoints, p + 1) - At(window, p + 1).liquidityNet

C6_UpwardWalk ==
    cpc = "returned" =>
        \A p \in (closestTickIndex + 1)..(Len(window) - 1) :
            At(liquidityPoints, p)
                = At(liquidityPoints, p - 1) + At(window, p).liquidityNet

\* A window of three ticks anchored at its first, with two non-zero steps up.
C6_Witness ==
    /\ cpc = "returned"
    /\ Len(window) = 3
    /\ closestTickIndex = 0
    /\ currentTickLiquidity = 1000
    /\ window[2].liquidityNet = 5
    /\ window[3].liquidityNet = 5
    /\ liquidityPoints = <<1000, 1005, 1010>>

\* C7: for a non-empty index-ascending window the position found has minimal
\* distance to currentTick, and of two equidistant ticks it is the lower one.
C7_ClosestTickLowerOnTie ==
    (cpc = "returned" /\ Len(window) > 0) =>
        LET anchor == At(window, closestTickIndex).tickIndex
        IN  \A k \in 1..Len(window) :
                /\ Abs(anchor - currentTick) <= Abs(window[k].tickIndex - currentTick)
                /\ Abs(anchor - currentTick) = Abs(window[k].tickIndex - currentTick)
                      => anchor <= window[k].tickIndex

\* The window [100, 160] with currentTick 130: both ticks 30 away, 100 found.
C7_Witness ==
    /\ cpc = "returned"
    /\ Len(window) = 2
    /\ window[1].tickIndex = 100
    /\ window[2].tickIndex = 160
    /\ currentTick = 130
    /\ closestTickIndex = 0

\* C8: from an empty window the reconstruction returns an empty curve and does
\* not fail.
C8_EmptyWindowGivesEmptyCurve ==
    (cpc # "input" /\ Len(window) = 0) =>
        /\ cpc = "returned"
        /\ liquidityPoints = <<>>

(***************************************************************************)
(* Batching, delays and failures of retrieveTicksInBatches.                *)
(***************************************************************************)
\* ceil(n / b) for n >= 0 and b >= 1.
CeilDiv(n, b) == (n + b - 1) \div b

\* C11 (as the code has it): a finished retrieval over N indices with batchSize
\* B >= 1 has waited the inter-batch delay once between every two consecutive
\* batches and not after the last one: ceil(N/B) - 1 times when N > 0, never
\* when N = 0.
C11_DelayBetweenBatches ==
    (rpc = "done" /\ batchSize >= 1) =>
        delayWaits = IF Len(tickIndices) > 0
                     THEN CeilDiv(Len(tickIndices), batchSize) - 1
                     ELSE 0

\* Three indices in batches of two: two batches, one delay between them.
C11_Witness ==
    /\ rpc = "done"
    /\ Len(tickIndices) = 3
    /\ batchSize = 2
    /\ Len(batchLog) = 2
    /\ delayWaits = 1

\* C11 (as stated): a finished retrieval over N indices with batchSize B >= 1
\* has waited the inter-batch delay exactly N - 1 times when N > 0 and never
\* when N = 0.
C11_DelayPerIndex ==
    (rpc = "done" /\ batchSize >= 1) =>
        delayWaits = IF Len(tickIndices) > 0 THEN Len(tickIndices) - 1 ELSE 0

\* The concatenation of a sequence of sequences.
RECURSIVE Flatten(_)
Flatten(seqs) == IF Len(seqs) = 0 THEN <<>> ELSE Head(seqs) \o Flatten(Tail(seqs))

\* C12: with batchSize B >= 1 the batches issued so far are consecutive,
\* non-overlapping slices of the input in input order (concatenated they are a
\* prefix of it), each of at most B indices and all but the last issued of
\* exactly B; a finished retrieval over N indices has issued exactly ceil(N/B)
\* batches and they cover the whole input.
C12_BatchesPartitionInput ==
    batchSize >= 1 =>
        /\ Len(Flatten(batchLog)) <= Len(tickIndices)
        /\ Flatten(batchLog) = SubSeq(tickIndices, 1, Len(Flatten(batchLog)))
        /\ \A k \in 1..Len(batchLog) :
              /\ Len(batchLog[k]) >= 1
              /\ Len(batchLog[k]) <= batchSize
              /\ k < Len(batchLog) => Len(batchLog[k]) = batchSize
        /\ rpc = "done" =>
              /\ Len(batchLog) = CeilDiv(Len(tickIndices), batchSize)
              /\ Flatten(batchLog) = tickIndices

\* Three indices in batches of two: the batches [-60, 600] and [1200].
C12_Witness ==
    /\ rpc = "done"
    /\ tickIndices = <<-60, 600, 1200>>
    /\ batchSize = 2
    /\ batchLog = << <<-60, 600>>, <<1200>> >>

\* C20: in every state of a retrieval with batchSize B >= 1, at most B of the
\* pool.ticks calls issued so far have not settled yet.
C20_InFlightAtMostBatchSize ==
    batchSize >= 1 => inFlight <= batchSize

\* Both lookups of a full batch of two are in flight.
C20_Witness ==
    /\ batchSize = 2
    /\ Len(tickIndices) = 3
    /\ inFlight = 2
    /\ rpc = "await"

\* C15: a retrieval (batchSize >= 1, at least one index) in which every lookup
\* fails because the transport is exhausted does not complete normally: it never
\* returns an array (of sentinel records), the failure reaches the caller.
C15_UnavailablePropagates ==
    (/\ batchSize >= 1
     /\ Len(tickIndices) > 0
     /\ \A k \in 1..Len(tickIndices) : lookupLog[k] = Unavailable)
        => rpc # "done"

(***************************************************************************)
(* Failures inside getAllTicks (checked under SpecScan).                   *)
(***************************************************************************)
\* C13: when the detail lookup of a decoded tick has failed, getAllTicks does not
\* fail; it returns one record per decoded tick in decoded order, the zero-valued
\* record with initialized = false for a failed index and the record of the
\* chain for every other index.
C13_FailedDetailBecomesSentinel ==
    AnyRejected(tickDataPromises) =>
        /\ gpc # "rejected"
        /\ gpc = "done" =>
              /\ Len(allTicks) = Len(initializedTicks)
              /\ \A k \in 1..Len(allTicks) :
                    /\ allTicks[k].index = initializedTicks[k]
                    /\ tickDataPromises[k].state = "rejected" =>
                          /\ allTicks[k].initialized = FALSE
                          /\ allTicks[k].liquidityGross = 0
                          /\ allTicks[k].liquidityNet = 0
                    /\ tickDataPromises[k].state = "fulfilled" =>
                          LET d == tickDataPromises[k].value[1]
                          IN  /\ allTicks[k].initialized = d.initialized
                              /\ allTicks[k].liquidityGross = d.liquidityGross
                              /\ allTicks[k].liquidityNet = d.liquidityNet

\* C14: a getAllTicks call that has read tickSpacing and then had a tickBitmap
\* fetch fail (so that it holds no bitmapWords array) does not fail: the word is
\* replaced by a sentinel and the scan goes on.
C14_FailedWordFetchRecovered ==
    (gTickSpacing # 0 /\ bitmapWords = <<>>) => gpc # "rejected"

(***************************************************************************)
(* Properties of PriceUtils (checked under SpecPrice).                     *)
(***************************************************************************)
\* C16: for a price that is not finite or not greater than 0 (zero, negative,
\* NaN, infinite), priceToTick fails with an InvalidInput error and returns no
\* tick.
C16_InvalidPriceRejected ==
    (tickOfPrice.status # "none" /\ inPrice.kind # "pos") =>
        /\ tickOfPrice.status = "threw"
        /\ tickOfPrice.value[1] = "InvalidInput"

\* C17: for a price <= 0 (zero or negative), priceToSqrtPriceX96 ends in an
\* error raised before the square root is taken, and returns no encoded value.
C17_NonPositivePriceRejected ==
    (sqrtOfPrice.status # "none" /\ inPrice.kind \in {"zero", "neg"}) =>
        /\ sqrtOfPrice.status = "threw"
        /\ ~sqrtTaken

C19_SameDecimalAdjustment ==
    (/\ priceOfSqrt.status = "returned"
     /\ quotePrice.status = "returned"
     /\ Square(FromX96(inSqrtPriceX96)) = tickToPrice(inTick))
        => LET scaled == MulPow10(tickToPrice(inTick), inToken1Decimals - inToken0Decimals)
           IN  /\ priceOfSqrt.value[1] = scaled
               /\ quotePrice.value[1] = IF inZeroTokenIsQuoteToken
                                        THEN Reciprocal(scaled)
                                        ELSE scaled

(***************************************************************************)
(* Pacing and termination of retrieveTicksInBatches.                       *)
(***************************************************************************)
\* The lookups of the current batch that have not settled.
PendingOfBatch == Cardinality({k \in DOMAIN batchPromises : batchPromises[k].state = "pending"})

\* C23: with batchSize >= 1, while the lookups of a batch are awaited every
\* lookup of the earlier batches has settled and each earlier batch was followed
\* by one delay that has elapsed; during a delay nothing is in flight and
\* another batch is still to come; and the call has returned after as many
\* delays as batches but one, none after the last batch.
C23_BatchesPacedByDelay ==
    batchSize >= 1 =>
        /\ rpc = "await" =>
              /\ inFlight = PendingOfBatch
              /\ delayWaits = Len(batchLog) - 1
        /\ rpc = "delay" =>
              /\ inFlight = 0
              /\ delayWaits = Len(batchLog)
              /\ Len(Flatten(batchLog)) < Len(tickIndices)
        /\ rpc \in {"loop", "done"} =>
              /\ inFlight = 0
              /\ delayWaits = IF Len(batchLog) = 0 THEN 0
                              ELSE IF Len(Flatten(batchLog)) < Len(tickIndices)
                                   THEN Len(batchLog)
                                   ELSE Len(batchLog) - 1

\* The second of two batches is awaited, after the one delay between them.
C23_Witness ==
    /\ batchSize = 2
    /\ Len(tickIndices) = 3
    /\ rpc = "await"
    /\ Len(batchLog) = 2
    /\ delayWaits = 1
    /\ inFlight = 1

\* C27: when every lookup issued settles and every timer fires, the call
\* returns, whatever the index list and the batchSize (0 included).
C27_EventuallyReturns == <>(rpc = "done")

(***************************************************************************)
(* Order and coverage of the full-range scan.                              *)
(***************************************************************************)
StrictlyAscending(seq) == \A k \in 1..(Len(seq) - 1) : seq[k] < seq[k + 1]

\* C24: the tick indices getAllTicks decodes from all the words it fetched are
\* strictly ascending (so without duplicates), and so are the indices of the
\* records it returns.
C24_DecodedTicksAscending ==
    /\ StrictlyAscending(initializedTicks)
    /\ gpc = "done" =>
          /\ Len(allTicks) = Len(initializedTicks)
          /\ StrictlyAscending([k \in 1..Len(allTicks) |-> allTicks[k].index])

\* A finished scan that returned ticks of (at least) two words: two below zero
\* and two above.
C24_Witness ==
    /\ gpc = "done"
    /\ Len(allTicks) >= 4
    /\ allTicks[2].index < 0
    /\ allTicks[Len(allTicks) - 1].index > 0

\* The least and the greatest multiple of tickSpacing in [MIN_TICK, MAX_TICK].
LowestAligned(tickSpacing) == -(((-MIN_TICK) \div tickSpacing) * tickSpacing)
HighestAligned(tickSpacing) == (MAX_TICK \div tickSpacing) * tickSpacing

\* The pairs (word, bit position) of the scanned word range that stand for tick t,
\* a multiple of tickSpacing: wordToTick(word) + position * tickSpacing = t with
\* 0 <= position < 256.
Cover(t, tickSpacing) ==
    LET Offset(w) == t - wordToTick(w, tickSpacing)
        holding == {w \in minWordOf(tickSpacing)..maxWordOf(tickSpacing) :
                      /\ Offset(w) >= 0
                      /\ Offset(w) < TICK_BITMAP_WORD_SIZE * tickSpacing}
    IN  {<<w, Offset(w) \div tickSpacing>> : w \in holding}

\* Aligned ticks of the valid range: its two ends, the ticks around zero and
\* around the first word boundaries, and the ticks of the set bits of the word
\* at hand.
AlignedTicks(tickSpacing) ==
    {t \in {LowestAligned(tickSpacing), HighestAligned(tickSpacing),
            -TICK_BITMAP_WORD_SIZE * tickSpacing, -tickSpacing, 0, tickSpacing,
            (TICK_BITMAP_WORD_SIZE - 1) * tickSpacing,
            TICK_BITMAP_WORD_SIZE * tickSpacing}
           \cup {ChainTickOfBit(dWordIndex, b, tickSpacing) : b \in dWord} :
        t >= MIN_TICK /\ t <= MAX_TICK}

\* C26: every multiple of tickSpacing in [MIN_TICK, MAX_TICK] is the tick of
\* exactly one (word, bit position) pair of the word range
\* tickToWord(MIN_TICK)..tickToWord(MAX_TICK).
C26_WordRangeCoversEachTickOnce ==
    \A t \in AlignedTicks(dTickSpacing) : Cardinality(Cover(t, dTickSpacing)) = 1

\* With tickSpacing 60 the lowest aligned tick, -887220, is bit 61 of the first
\* word, -58, and a word of the range has been decoded.
C26_Witness ==
    /\ dpc = "done"
    /\ dTickSpacing = 60
    /\ dWordIndex = minWordOf(60)
    /\ dWord # {}
    /\ Cover(LowestAligned(60), 60) = {<<-58, 61>>}

(***************************************************************************)
(* Properties of calculateTickIndices (checked under SpecIndices).         *)
(***************************************************************************)
\* C22: for tickSpacing >= 1 and tickCount >= 0 the index list is strictly
\* ascending, holds only multiples of tickSpacing, has consecutive indices
\* exactly tickSpacing apart, and contains the greatest multiple of tickSpacing
\* that is <= currentTick.
C22_IndicesFormAlignedWindow ==
    ixpc = "done" =>
        /\ \A k \in 1..Len(ixTickIndices) : ixTickIndices[k] % ixTickSpacing = 0
        /\ \A k \in 1..(Len(ixTickIndices) - 1) :
              /\ ixTickIndices[k] < ixTickIndices[k + 1]
              /\ ixTickIndices[k + 1] - ixTickIndices[k] = ixTickSpacing
        /\ \E k \in 1..Len(ixTickIndices) :
              /\ ixTickIndices[k] <= ixCurrentTick
              /\ ixCurrentTick < ixTickIndices[k] + ixTickSpacing

\* currentTick -61 with tickSpacing 60: the window around -120.
C22_Witness ==
    /\ ixpc = "done"
    /\ ixCurrentTick = -61
    /\ ixTickSpacing = 60
    /\ ixTickCount = 3
    /\ ixTickIndices = <<-180, -120, -60>>

\* C25: for tickCount >= 1 the index list has exactly tickCount indices.
C25_ReturnsTickCountIndices ==
    (ixpc = "done" /\ ixTickCount >= 1) => Len(ixTickIndices) = ixTickCount

(***************************************************************************)
(* Properties of main (checked under SpecFlow).                            *)
(***************************************************************************)
\* C21: the currentTick and currentLiquidity the curve is anchored at are those
\* of the pool state the window was built around, whatever the pool did between
\* the reads of the flow.
C21_AnchorFromWindowSnapshot ==
    mpc = "done" =>
        /\ anchorTick = resultCurrentTick
        /\ anchorLiquidity = snapshotLiquidity

(***************************************************************************)
(* Properties of createLiquidityCharts (checked under SpecCharts).         *)
(***************************************************************************)
\* C28: within one createLiquidityCharts call the liquidity distribution chart
\* and the price progression chart present the ticks in the same order:
\* position k of both series stands for the same window tick.
C28_ChartsInSameTickOrder ==
    chartpc = "returned" =>
        /\ Len(chartData) = Len(prices)
        /\ \A k \in 1..Len(chartData) : chartData[k].tickIndex = prices[k].tickIndex

====
